---- MODULE Spec2Model ----
(***************************************************************************)
(* Invocation execution and streaming pipeline of squad-api.               *)
(*                                                                         *)
(* Control plane: squad/invocation/router.py (log, upload, complete, fail, *)
(* stream), squad/agent/router.py (invoke), squad/invocation/schemas.py.   *)
(* The persisted rows live in Postgres, the per-invocation log in a Redis  *)
(* stream; every await of a handler on the database or on Redis is a       *)
(* point where other handlers run.                                         *)
(*                                                                         *)
(* Worker: squad/invocation/execute.py (execute, its calls to the control  *)
(* plane with their retries, and the log pipeline: two _capture_logs       *)
(* producers, one queue, one _log_writer consumer); dispatcher:            *)
(* squad/invocation/event_listeners.py.                                    *)
(***************************************************************************)
EXTENDS Integers, Sequences, FiniteSets, TLC

VARIABLES rows, stream, clock, invoke, req, tail, job, w, lp, pkg, mk, sm,
          seen

vars == <<rows, stream, clock, invoke, req, tail, job, w, lp, pkg, mk, sm, seen>>

----------------------------------------------------------------------------
(* Bounds *)

MaxClock == 2
MaxReq == 2
MaxTail == 2
MaxStream == 4
MaxFaults == 1
MaxLines == 2
MaxTasks == 3

(* Program constants *)

\* Column(DateTime) completed_at is nullable: 0 stands for NULL, the clock
\* starts at 1.
NULL == 0

\* timedelta(minutes=30) of stream_invocation, in clock ticks.
StreamCutoff == 1

FINISHED == "__INVOCATION_FINISHED__"

InvocationIds == {"i1"}
Req == 1..MaxReq
Tailers == 1..MaxTail

Kinds == {"log", "upload", "complete", "fail"}
\* values the worker can put in {"answer": ...}; "empty" is a falsy JSON
\* value ({} , "", 0, null)
Answers == {"ans", "empty"}
Errors == {"err"}
LogTexts == {"line", FINISHED}
Files == {"f1"}
Tokens == {"scoped", "other"}
Callers == {"owner", "stranger", "None"}

----------------------------------------------------------------------------
(* Invocation rows: squad/invocation/schemas.py *)

\* JSON values stored in the answer column: key = "" is a bare value v,
\* otherwise the object {key: v}.
Json(key, v) == [key |-> key, v |-> v]
NoAnswer == Json("", "null")

Invocation(public) ==
    [user_id |-> "owner", public |-> public, status |-> "pending",
     answer |-> NoAnswer, inputs |-> <<"in1", "in2">>, outputs |-> <<>>,
     completed_at |-> NULL, task |-> <<"alpha">>]

NotFound == [found |-> FALSE, completed_at |-> NULL]
Found(row) == [found |-> TRUE, completed_at |-> row.completed_at]

\* user_id values seen by _load_invocation: None for an unauthenticated
\* caller, a user's id, or the marker "__agent__" passed by the worker
\* endpoints.
None == "None"
Truthy(user_id) == user_id # None

\* _load_invocation: a truthy user_id adds WHERE user_id = :user_id OR public;
\* a falsy one that is not "__agent__" adds WHERE public.
Visible(row, user_id) ==
    IF Truthy(user_id) THEN row.user_id = user_id \/ row.public
    ELSE IF user_id # "__agent__" THEN row.public
    ELSE TRUE

_load_invocation(db, invocation_id, user_id) ==
    IF invocation_id \in DOMAIN db /\ Visible(db[invocation_id], user_id)
    THEN Found(db[invocation_id])
    ELSE NotFound

----------------------------------------------------------------------------
(* Redis stream: XADD with auto-generated ids <ms>-<seq>, XRANGE *)

IdLeq(a, b) == a[1] < b[1] \/ (a[1] = b[1] /\ a[2] <= b[2])

\* XADD key *: the id is <now>-0 when the clock has passed the last entry,
\* otherwise <last ms>-<last seq + 1>.
NextStreamId(s, now) ==
    IF s = <<>> THEN <<now, 0>>
    ELSE LET last == s[Len(s)].id
         IN IF now > last[1] THEN <<now, 0>> ELSE <<last[1], last[2] + 1>>

xadd(s, now, log) == Append(s, [id |-> NextStreamId(s, now), log |-> log])

RECURSIVE xrange(_, _)
\* XRANGE key start +: the entries with id >= start, in order.
xrange(s, start) ==
    IF s = <<>> THEN <<>>
    ELSE IF IdLeq(start, Head(s).id) THEN s
         ELSE xrange(Tail(s), start)

\* Offsets of the stream endpoint: the query parameter is absent (None), a
\* stream id, or a string Redis rejects.
NoOffset == [kind |-> "none", id |-> <<0, 0>>]
Off(id) == [kind |-> "id", id |-> id]
BadOffset == [kind |-> "bad", id |-> <<0, 0>>]

\* xrange(stream_key, last_offset or "-", "+")
XrangeFrom(s, last_offset) ==
    IF last_offset.kind = "none" THEN s ELSE xrange(s, last_offset.id)

IncrOffset_Same(id) == id

\* parts[0] + "-" + str(int(parts[1]) + 1)
IncrOffset(id) == <<id[1], id[2] + 1>>

RECURSIVE Frames(_)
\* The for loop of _stream over one xrange result: one data frame per
\* entry, annotated with the offset to resume from, stopping after the
\* entry whose log is the sentinel.
Frames(res) ==
    IF res = <<>> THEN <<>>
    ELSE LET e == Head(res)
             f == [log |-> e.log, offset |-> IncrOffset(e.id), id |-> e.id]
         IN IF e.log = FINISHED THEN <<f>> ELSE <<f>> \o Frames(Tail(res))

----------------------------------------------------------------------------
(* State-transition guard and the row updates of complete / fail / upload *)

AlreadyCompleted_Never(snap) == FALSE

\* if invocation.completed_at: ...
AlreadyCompleted(snap) == snap.completed_at # NULL

JsonTruthy(v) == v # "empty"

CompleteUpdate_NoTimestamp(row, now, answer) ==
    [row EXCEPT !.answer = Json("", answer), !.status = "success"]
CompleteUpdate_Deferred(row, now, answer) == row

\* mark_complete: completed_at = now(), answer = raw_json.get("answer") or
\* raw_json, status = "success"; one UPDATE at commit.
CompleteUpdate(row, now, answer) ==
    [row EXCEPT !.completed_at = now,
                !.answer = IF JsonTruthy(answer) THEN Json("", answer)
                           ELSE Json("answer", answer),
                !.status = "success"]

\* mark_failed: completed_at = now(), answer = the request body
\* {"error": ...}, status = "error".
FailUpdate(row, now, error) ==
    [row EXCEPT !.completed_at = now,
                !.answer = Json("error", error),
                !.status = "error"]

\* upload_file: UPDATE invocations SET outputs = array_cat(outputs, :new)
UploadUpdate_Replace(row, output_paths) ==
    [row EXCEPT !.outputs = output_paths]

UploadUpdate(row, output_paths) ==
    [row EXCEPT !.outputs = @ \o output_paths]

----------------------------------------------------------------------------
(* Dispatcher: squad/invocation/event_listeners.py *)

\* Environment of the "execute" container of the job.
JobEnv ==
    {"PYTHONWARNINGS", "AGENT_ID", "SQUAD_API_BASE_URL", "HTTP_PROXY",
     "HTTPS_PROXY", "NO_PROXY"}

\* Options on the command lines of the "prepare" init container and of the
\* "execute" container.
PrepareArgs == {"--prepare", "--id"}
ExecuteArgs == {"--id"}

\* Options the argument parser of execute.py main() knows; parse_args exits
\* with status 2 on any other.
ParserArgs == {"--id"}
parse_args(args) == args \subseteq ParserArgs

\* pods: the number of pods the job has started.
NoJob == [phase |-> "none", env |-> {}, pods |-> 0]

create_invocation_job_Resubmit(submitted) ==
    [phase |-> IF submitted THEN "submitted" ELSE "resubmitted", env |-> JobEnv,
     pods |-> 0]

\* One job per inserted row: create_namespaced_job returns, or raises and
\* the exception is logged.
create_invocation_job(submitted) ==
    IF submitted THEN [phase |-> "submitted", env |-> JobEnv, pods |-> 0]
    ELSE [phase |-> "submit_failed", env |-> {}, pods |-> 0]

PodPhase_Restart(ok) == IF ok THEN "init_done" ELSE "submitted"

\* The phase after the init container has exited: restart_policy = "Never"
\* and backoff_limit = 0 make its failure final.
PodPhase(ok) == IF ok THEN "init_done" ELSE "init_failed"

----------------------------------------------------------------------------
(* Worker runtime: squad/invocation/execute.py *)

\* backoff.on_exception(backoff.constant, Exception, max_tries=7)
max_tries == 7

\* What the generated program does once launched.
Programs == {"exit0_answer", "exit0_no_answer", "exit_nonzero", "hang"}

\* A call of the worker to the control plane through SQUAD_SM (a session
\* with raise_for_status=True): up to max attempts, st is "ready" before an
\* attempt, "sent" while the server handles it, "ok" or "raised" at the end.
NoCall == [kind |-> "none", arg |-> "", tries |-> 0, max |-> 0, st |-> "none"]

NewCall(kind, arg, max) ==
    [kind |-> kind, arg |-> arg, tries |-> 0, max |-> max, st |-> "ready"]

\* One attempt has raised: backoff retries until max tries have been made.
Retried(call) ==
    [call EXCEPT !.tries = @ + 1,
                 !.st = IF call.tries + 1 >= call.max THEN "raised" ELSE "ready"]

\* config["inputs"]: the input blobs of the invocation.
Inputs == {"in1", "in2"}

\* backoff.on_exception: the decorated function is called again only when
\* it raises, until max_tries calls have been made.
BackoffTries(raised) == IF raised THEN max_tries ELSE 1

_download_Raising(ok) == [raised |-> ~ok, fetched |-> ok]

\* _download: the whole body is inside try / except Exception, which logs
\* and returns None.
_download(ok) == [raised |-> FALSE, fetched |-> ok]

\* fetched: the inputs written to /tmp/inputs; bad: an output file whose
\* upload request fails every time; attempts: calls made of the function
\* being retried.
WorkerOff ==
    [pc |-> "off", id |-> "i1", launcher |-> "none", env |-> {},
     program |-> "none", returncode |-> "none", failure_reason |-> "None",
     files |-> <<>>, attempts |-> 0, faults |-> 0, call |-> NoCall,
     fetched |-> {}, bad |-> "none"]

\* The request slot that carries the worker's calls.
WSlot == 1

----------------------------------------------------------------------------
(* Log pipeline of the worker: _capture_logs, _log_writer, execute 286-346 *)

\* if char_count >= 512, in units of 256 characters.
FlushThreshold == 2

\* len(line) of the lines a program prints, in the same units.
LineLens == {1, 2}

\* What one pipe of the subprocess carries: up to MaxLines lines, numbered
\* in emission order.
Outputs(src) ==
    UNION {{[k \in 1..n |-> [src |-> src, n |-> k, len |-> f[k]]] :
              f \in [1..n -> LineLens]} : n \in 0..MaxLines}

\* await log_queue.put(None): the end-of-stream marker.
NoneLine == [src |-> "None", n |-> 0, len |-> 0]

\* proc: the subprocess; out: the lines of each pipe not yet read; queue:
\* log_queue; wpc, buffer, char_count, line: the writer task and its
\* locals, batch and cause: the text of its current _ship_log call and the
\* branch that made it; shipped: the batches whose _ship_log call returned;
\* paused: a wait_for timeout has expired; main: the position of execute;
\* file: the lines written to the local log file.
PipelineOff ==
    [proc |-> "off", returncode |-> "none",
     out |-> [src \in {"stdout", "stderr"} |-> <<>>], queue |-> <<>>,
     wpc |-> "off", buffer |-> <<>>, char_count |-> 0, line |-> NoneLine,
     batch |-> <<>>, cause |-> "none", shipped |-> <<>>, paused |-> FALSE,
     main |-> "off", failure_reason |-> "None", file |-> <<>>]

\* _log_writer, except asyncio.TimeoutError: a non-empty buffer is shipped,
\* an empty one is left alone; continue.
OnTimeout_Idle(l) == [l EXCEPT !.paused = TRUE]

OnTimeout(l) ==
    IF l.buffer # <<>>
    THEN [l EXCEPT !.paused = TRUE, !.wpc = "ship", !.batch = l.buffer,
                   !.cause = "timeout"]
    ELSE [l EXCEPT !.paused = TRUE]

\* _log_writer, if line is None: write the buffer to the file, ship what
\* the buffer holds, break.
OnNone(l) ==
    IF l.buffer # <<>>
    THEN [l EXCEPT !.wpc = "ship", !.batch = l.buffer, !.cause = "final",
                   !.line = NoneLine, !.file = @ \o l.buffer]
    ELSE [l EXCEPT !.wpc = "done", !.line = NoneLine]

OnLine_Prepend(l, line) ==
    [l EXCEPT !.char_count = @ + line.len, !.buffer = <<line>> \o @]

\* _log_writer, else: the line is written to the file; char_count +=
\* len(line); a count of 512 or more with a non-empty buffer ships the
\* buffer (the line itself is appended after the call returns); otherwise
\* buffer.append(line).
OnLine(l, line) ==
    IF l.char_count + line.len >= FlushThreshold /\ l.buffer # <<>>
    THEN [l EXCEPT !.char_count = @ + line.len, !.wpc = "ship",
                   !.batch = l.buffer, !.cause = "threshold", !.line = line,
                   !.file = Append(@, line)]
    ELSE [l EXCEPT !.char_count = @ + line.len, !.buffer = Append(@, line),
                   !.file = Append(@, line)]

OnShipped_Keep(l) ==
    [l EXCEPT !.shipped = Append(@, [cause |-> l.cause, lines |-> l.batch]),
              !.batch = <<>>, !.cause = "none",
              !.wpc = IF l.cause = "final" THEN "done" ELSE "get",
              !.buffer = IF l.cause = "threshold" THEN Append(@, l.line) ELSE @,
              !.line = NoneLine]

\* The _ship_log call of the writer returns: after a timeout flush
\* buffer.clear(), char_count = 0; after a threshold flush the same and
\* buffer.append(line); after the final one, break.
OnShipped(l) ==
    LET done == [l EXCEPT !.shipped = Append(@, [cause |-> l.cause, lines |-> l.batch]),
                          !.batch = <<>>, !.cause = "none"]
    IN CASE l.cause = "timeout" ->
              [done EXCEPT !.wpc = "get", !.buffer = <<>>, !.char_count = 0]
         [] l.cause = "threshold" ->
              [done EXCEPT !.wpc = "get", !.buffer = <<l.line>>,
                           !.char_count = 0, !.line = NoneLine]
         [] OTHER -> [done EXCEPT !.wpc = "done"]

----------------------------------------------------------------------------
(* Initial state: no invocation exists, no request is in flight *)

IdleReq ==
    [pc |-> "idle", kind |-> "log", id |-> "i1", tok |-> "scoped",
     arg |-> "", snap |-> NotFound, at |-> NULL, pre |-> "none", resp |-> 0]

ClosedTail ==
    [pc |-> "closed", id |-> "i1", last_offset |-> NoOffset, emitted |-> <<>>,
     start |-> "none", after |-> <<0, 0>>, resp |-> 0]

\* settings.dev_auth: the environment's DEV_CHUTES_AUTH, None when unset.
DevAuths == {"None", "dev-token"}

\* Invocation.source: "api" by default, "x" or "schedule" otherwise.
Sources == {"api", "x", "schedule"}

NoToken == [sub |-> "None", agent_id |-> "None", scopes |-> {}]

\* The payload of a token: the one of the JWT, or the one of the token
\* configured for development, which was minted for no invocation.
DevToken == [sub |-> "dev", agent_id |-> "None", scopes |-> {}]

\* generate_auth_token: the configured development token if there is one,
\* else a JWT of the subject with the extra payload.
generate_auth_token(dev_auth, user_id, agent_id, scopes) ==
    IF dev_auth # "None" THEN DevToken
    ELSE [sub |-> user_id, agent_id |-> agent_id, scopes |-> scopes]

PackageScopes_Always(invocation_id, source) == {invocation_id, "x"}

\* The scopes asked for by prepare_execution_package.
PackageScopes(invocation_id, source) ==
    {invocation_id} \cup (IF source \in {"x", "schedule"} THEN {"x"} ELSE {})

\* The package builder before its call.
PackageOff ==
    [pc |-> "off", id |-> "i1", source |-> "api", dev_auth |-> "None",
     token |-> NoToken, url |-> "None"]

\* Concurrent coroutines: calls of invoke_agent, users of a SessionManager.
Tasks == 1..MaxTasks

\* The values _gen_candidate can give.
Candidates == {"c1", "c2"}

\* The invocations table as the creations see it, the log each creation
\* opens, and the calls of invoke_agent.
CreationOff ==
    [table |-> <<>>, log |-> [c \in Candidates |-> <<>>],
     call |-> [t \in Tasks |-> [pc |-> "idle", invocation_id |-> "None",
                                resp |-> 0]]]

\* SessionManager.__init__: no session, the lock free, nobody waiting.
SessionManagerOff ==
    [_session |-> "None", _lock |-> 0, pc |-> [t \in Tasks |-> "idle"]]

\* The last answer of a read endpoint, and the call that got it.
NothingSeen ==
    [kind |-> "none", caller |-> "None", id |-> "None", search |-> "None",
     mine |-> FALSE, code |-> 0, body |-> {}]

InitWith(dev_auth) ==
    /\ pkg = [PackageOff EXCEPT !.dev_auth = dev_auth]
    /\ mk = CreationOff
    /\ sm = SessionManagerOff
    /\ seen = NothingSeen
    /\ rows = <<>>
    /\ stream = [i \in InvocationIds |-> <<>>]
    /\ clock = 1
    /\ invoke = [i \in InvocationIds |-> "none"]
    /\ req = [r \in Req |-> IdleReq]
    /\ tail = [t \in Tailers |-> ClosedTail]
    /\ job = [i \in InvocationIds |-> NoJob]
    /\ w = WorkerOff
    /\ lp = PipelineOff

Init == InitWith("None")

\* Time passes (the database's now() and Redis's millisecond clock).
Tick ==
    /\ clock < MaxClock
    /\ clock' = clock + 1
    /\ UNCHANGED <<rows, stream, invoke, req, tail, job, w, lp, pkg, mk, sm, seen>>

----------------------------------------------------------------------------
(* invoke_agent: squad/agent/router.py *)

\* db.add(invocation); await db.commit().  The after_insert listener
\* create_invocation_job runs inside the flush: create_namespaced_job either
\* succeeds or raises, and the exception is logged and swallowed.
InvokeCommit(i, public, submitted) ==
    /\ invoke[i] = "none"
    /\ i \notin DOMAIN rows
    /\ rows' = rows @@ (i :> Invocation(public))
    /\ invoke' = [invoke EXCEPT ![i] = "committed"]
    /\ job' = [job EXCEPT ![i] = create_invocation_job(submitted)]
    /\ UNCHANGED <<stream, clock, req, tail, w, lp, pkg, mk, sm, seen>>

\* await redis_client.xadd(stream_key, {"log": "Queued agent call."})
InvokeXadd(i) ==
    /\ invoke[i] = "committed"
    /\ stream' = [stream EXCEPT ![i] = xadd(@, clock, "Queued agent call.")]
    /\ invoke' = [invoke EXCEPT ![i] = "done"]
    /\ UNCHANGED <<rows, clock, req, tail, job, w, lp, pkg, mk, sm, seen>>

----------------------------------------------------------------------------
(* Worker endpoints: log, upload, complete, fail *)

InFlight(r) == req[r].pc \notin {"idle", "done"}

Args(kind) ==
    CASE kind = "log" -> LogTexts
      [] kind = "upload" -> Files
      [] kind = "complete" -> Answers
      [] kind = "fail" -> Errors

CompletedResponse_Ack(kind) == 200

CompletedResponse_Reject(kind) == 400

\* What the handler answers when the loaded invocation is already
\* completed: append_log returns "ack", the others raise HTTP 400.
CompletedResponse(kind) == IF kind = "log" THEN 200 ELSE 400

\* The start of a handler up to its first write: get_current_agent checks
\* the token scopes (401), _load_invocation(db, invocation_id, "__agent__")
\* opens the transaction and reads the row (None.completed_at raises: 500),
\* then the completed_at guard.  The result is the request's next state.
\* The scopes in the payload of a token: the token minted for the called
\* invocation, or a valid token minted for another invocation.
TokenScopes(tok, i) == IF tok = "scoped" THEN {i} ELSE {"another invocation"}

get_current_agent_Unscoped(payload_scopes, scopes) == TRUE

\* get_current_agent: every required scope is among the token's scopes.
get_current_agent(payload_scopes, scopes) ==
    (payload_scopes \cap scopes) = scopes

Loaded(kind, i, tok, arg) ==
    LET snap == _load_invocation(rows, i, "__agent__")
        base == [IdleReq EXCEPT !.kind = kind, !.id = i, !.tok = tok,
                                !.arg = arg, !.pre = rows[i].status]
    IN IF ~get_current_agent(TokenScopes(tok, i), {i})
       THEN [base EXCEPT !.pc = "done", !.resp = 401]
       ELSE IF ~snap.found
       THEN [base EXCEPT !.pc = "done", !.resp = 500]
       ELSE IF AlreadyCompleted(snap)
       THEN [base EXCEPT !.pc = "done", !.resp = CompletedResponse(kind)]
       ELSE [base EXCEPT !.pc = "checked", !.snap = snap, !.at = clock]

\* A request of some holder of a token arrives.  serial = TRUE admits it
\* only when no other request is in flight.  Request slots are
\* interchangeable and are taken in order; log requests stop when the log
\* has reached MaxStream entries.
Load(r, kind, i, tok, arg, serial) ==
    /\ req[r].pc = "idle"
    /\ \A q \in Req : q < r => req[q].pc # "idle"
    /\ i \in DOMAIN rows
    /\ serial => \A q \in Req : ~InFlight(q)
    /\ kind = "log" =>
         Len(stream[i]) + Cardinality({q \in Req : InFlight(q) /\ req[q].kind = "log"})
            < MaxStream
    /\ req' = [req EXCEPT ![r] = Loaded(kind, i, tok, arg)]
    /\ UNCHANGED <<rows, stream, clock, invoke, tail, job, w, lp, pkg, mk, sm, seen>>

\* mark_complete / mark_failed: await db.commit() writes completed_at
\* (now() is the transaction's start time), answer and status in one UPDATE.
Commit(r) ==
    /\ req[r].pc = "checked"
    /\ req[r].kind \in {"complete", "fail"}
    /\ rows' = [rows EXCEPT ![req[r].id] =
                  IF req[r].kind = "complete"
                  THEN CompleteUpdate(@, req[r].at, req[r].arg)
                  ELSE FailUpdate(@, req[r].at, req[r].arg)]
    /\ req' = [req EXCEPT ![r].pc = "committed"]
    /\ UNCHANGED <<stream, clock, invoke, tail, job, w, lp, pkg, mk, sm, seen>>

\* mark_failed: first xadd, "Invocation encountered an error: ..."
XaddError(r) ==
    /\ req[r].pc = "committed"
    /\ req[r].kind = "fail"
    /\ stream' = [stream EXCEPT ![req[r].id] =
                    xadd(@, clock, "Invocation encountered an error")]
    /\ req' = [req EXCEPT ![r].pc = "errlogged"]
    /\ UNCHANGED <<rows, clock, invoke, tail, job, w, lp, pkg, mk, sm, seen>>

FinishedEntry_Skipped(s, now) == s

\* await redis_client.xadd(stream_key, {"log": "__INVOCATION_FINISHED__"})
FinishedEntry(s, now) == xadd(s, now, FINISHED)

\* mark_complete / mark_failed: xadd of the sentinel, then return invocation
XaddFinished(r) ==
    /\ \/ req[r].pc = "committed" /\ req[r].kind = "complete"
       \/ req[r].pc = "errlogged" /\ req[r].kind = "fail"
    /\ stream' = [stream EXCEPT ![req[r].id] = FinishedEntry(@, clock)]
    /\ req' = [req EXCEPT ![r].pc = "done", ![r].resp = 200]
    /\ UNCHANGED <<rows, clock, invoke, tail, job, w, lp, pkg, mk, sm, seen>>

\* append_log: xadd of the shipped text, return "ack"
AppendLog(r) ==
    /\ req[r].pc = "checked"
    /\ req[r].kind = "log"
    /\ stream' = [stream EXCEPT ![req[r].id] = xadd(@, clock, req[r].arg)]
    /\ req' = [req EXCEPT ![r].pc = "done", ![r].resp = 200]
    /\ UNCHANGED <<rows, clock, invoke, tail, job, w, lp, pkg, mk, sm, seen>>

\* upload_file: store the files, UPDATE outputs, commit, return the paths
Upload(r) ==
    /\ req[r].pc = "checked"
    /\ req[r].kind = "upload"
    /\ rows' = [rows EXCEPT ![req[r].id] = UploadUpdate(@, <<req[r].arg>>)]
    /\ req' = [req EXCEPT ![r].pc = "done", ![r].resp = 200]
    /\ UNCHANGED <<stream, clock, invoke, tail, job, w, lp, pkg, mk, sm, seen>>

\* The response of a finished request has been sent: the connection serves
\* the next request.
Recycle(r) ==
    /\ req[r].pc = "done"
    /\ req' = [req EXCEPT ![r] = IdleReq]
    /\ UNCHANGED <<rows, stream, clock, invoke, tail, job, w, lp, pkg, mk, sm, seen>>

----------------------------------------------------------------------------
(* The job's pod and the worker process: event_listeners.py, execute.py *)

\* The "prepare" init container runs execute.py with PrepareArgs; the pod
\* fails (restart_policy Never, backoff_limit 0) when it exits non-zero.
PodInit(i) ==
    /\ job[i].phase = "submitted"
    /\ job' = [job EXCEPT ![i].phase = PodPhase(parse_args(PrepareArgs)),
                          ![i].pods = @ + 1]
    /\ UNCHANGED <<rows, stream, clock, invoke, req, tail, w, lp, pkg, mk, sm, seen>>

\* main(): the worker process starts, in the job's "execute" container
\* with the job's environment, or run by hand with an environment that may
\* hold PACKAGE_URL.
WorkerStart(i, launcher, env) ==
    /\ w.pc = "off"
    /\ i \in DOMAIN rows
    /\ \/ /\ launcher = "job"
          /\ job[i].phase = "init_done"
          /\ parse_args(ExecuteArgs)
          /\ env = job[i].env
       \/ /\ launcher = "manual"
          /\ env \in {{}, {"PACKAGE_URL"}}
    /\ w' = [WorkerOff EXCEPT !.pc = "getenv", !.id = i,
                              !.launcher = launcher, !.env = env]
    /\ job' = IF launcher = "job" THEN [job EXCEPT ![i].phase = "running"]
              ELSE job
    /\ UNCHANGED <<rows, stream, clock, invoke, req, tail, lp, pkg, mk, sm, seen>>

\* package_url = os.getenv("PACKAGE_URL"); if not package_url: return
GetPackageUrl ==
    /\ w.pc = "getenv"
    /\ w' = [w EXCEPT !.pc = IF "PACKAGE_URL" \in w.env THEN "package"
                             ELSE "returned"]
    /\ UNCHANGED <<rows, stream, clock, invoke, req, tail, job, lp, pkg, mk, sm, seen>>

Raised_Retry(l) == [l EXCEPT !.pc = "package"]

\* An exception leaves execute and main: the process ends.
Raised(l) == [l EXCEPT !.pc = "crashed", !.call = NoCall]

\* Download and extract the package; any exception is re-raised.
FetchPackage(ok) ==
    /\ w.pc = "package"
    /\ w' = IF ok THEN [w EXCEPT !.pc = "config"] ELSE Raised(w)
    /\ UNCHANGED <<rows, stream, clock, invoke, req, tail, job, lp, pkg, mk, sm, seen>>

\* json.load of /tmp/conf/configmap.json, config["authorization"]
ReadConfig(ok) ==
    /\ w.pc = "config"
    /\ w' = IF ok THEN [w EXCEPT !.pc = "inputs"] ELSE Raised(w)
    /\ UNCHANGED <<rows, stream, clock, invoke, req, tail, job, lp, pkg, mk, sm, seen>>

\* asyncio.gather of _download over config["inputs"], the downloads of
\* failing failing: an exception of one of them would leave execute.
DownloadInputs(failing) ==
    /\ w.pc = "inputs"
    /\ LET res == [x \in Inputs |-> _download(x \notin failing)]
       IN w' = IF \E x \in Inputs : res[x].raised THEN Raised(w)
               ELSE [w EXCEPT !.pc = "launch",
                              !.fetched = {x \in Inputs : res[x].fetched},
                              !.attempts =
                                  IF failing = {} THEN 1
                                  ELSE BackoffTries(\E x \in failing : res[x].raised)]
    /\ UNCHANGED <<rows, stream, clock, invoke, req, tail, job, lp, pkg, mk, sm, seen>>

\* create_subprocess_exec: on an exception _mark_complete(error=str(e)) and
\* return; otherwise the program runs.
Launch(ok, program) ==
    /\ w.pc = "launch"
    /\ w' = IF ok THEN [w EXCEPT !.pc = "wait", !.program = program]
            ELSE [w EXCEPT !.pc = "launch_failed",
                           !.call = NewCall("fail", "err", max_tries)]
    /\ UNCHANGED <<rows, stream, clock, invoke, req, tail, job, lp, pkg, mk, sm, seen>>

\* returncode = await process.wait(): returns when the program exits; the
\* writer task ships the batch of lines the program has printed.
ProcessExit ==
    /\ w.pc = "wait"
    /\ w.program # "hang"
    /\ w' = [w EXCEPT !.pc = "batch",
                      !.returncode = IF w.program = "exit_nonzero" THEN "137"
                                     ELSE "0",
                      !.call = NewCall("log", "batch", max_tries)]
    /\ UNCHANGED <<rows, stream, clock, invoke, req, tail, job, lp, pkg, mk, sm, seen>>

\* await producers, queue.put(None), await consumer_task (which raises when
\* one of its _ship_log calls gave up), then ship the result message; an
\* exception leads to the except Exception branch.
Drain(consumer_ok) ==
    /\ w.pc = "drain"
    /\ ~consumer_ok => w.faults < MaxFaults
    /\ w' = IF consumer_ok
            THEN [w EXCEPT !.pc = "ship_result",
                           !.failure_reason =
                               IF w.returncode = "0" THEN "None"
                               ELSE "Bad exit code from subprocess: 137",
                           !.call = NewCall("log", "line", max_tries)]
            ELSE [w EXCEPT !.pc = "ship_unhandled",
                           !.faults = @ + 1,
                           !.failure_reason = "Unhandled exception",
                           !.call = NewCall("log", "line", max_tries)]
    /\ UNCHANGED <<rows, stream, clock, invoke, req, tail, job, lp, pkg, mk, sm, seen>>

\* An attempt of the current call raises before reaching the server: a
\* transport error (at most MaxFaults injected faults per run), or, for _mark_complete without error, open() of
\* /tmp/outputs/_final_answer.json when the program wrote none.
NoAnswerFile == w.call.kind = "complete" /\ w.program # "exit0_answer"

\* The current call cannot be sent: no answer file to read, or the upload
\* of the file that fails every time.
CannotSend == NoAnswerFile \/ (w.call.kind = "upload" /\ w.call.arg = w.bad)

CallFail ==
    /\ w.call.st = "ready"
    /\ ~CannotSend => w.faults < MaxFaults
    /\ w' = [w EXCEPT !.call = Retried(w.call),
                      !.faults = IF CannotSend THEN @ ELSE @ + 1]
    /\ UNCHANGED <<rows, stream, clock, invoke, req, tail, job, lp, pkg, mk, sm, seen>>

\* session.post(...): the request reaches the control plane.
CallSend ==
    /\ w.call.st = "ready"
    /\ ~CannotSend
    /\ req[WSlot].pc = "idle"
    /\ req' = [req EXCEPT ![WSlot] = Loaded(w.call.kind, w.id, "scoped", w.call.arg)]
    /\ w' = [w EXCEPT !.call.st = "sent"]
    /\ UNCHANGED <<rows, stream, clock, invoke, tail, job, lp, pkg, mk, sm, seen>>

\* The response arrives, or is lost; a status >= 400 raises
\* (raise_for_status=True).
CallRecv(delivered) ==
    /\ w.call.st = "sent"
    /\ req[WSlot].pc = "done"
    /\ ~delivered => w.faults < MaxFaults
    /\ req' = [req EXCEPT ![WSlot] = IdleReq]
    /\ w' = IF delivered /\ req[WSlot].resp = 200
            THEN [w EXCEPT !.call.st = "ok"]
            ELSE [w EXCEPT !.call = Retried(w.call),
                           !.faults = IF delivered THEN @ ELSE @ + 1]
    /\ UNCHANGED <<rows, stream, clock, invoke, tail, job, lp, pkg, mk, sm, seen>>

CallOver == w.call.st \in {"ok", "raised"}

\* glob("/tmp/outputs/*"): the log file of _log_writer, and the answer file
\* when the program wrote one.
OutputFiles ==
    IF w.program = "exit0_answer" THEN <<"f1", "f2">> ELSE <<"f1">>

\* _ship_log(message) at the end of the try block returned or raised: on an
\* exception failure_reason is set and the message shipped once more.
AfterShipResult ==
    /\ w.pc = "ship_result"
    /\ CallOver
    /\ w' = IF w.call.st = "ok"
            THEN [w EXCEPT !.pc = "ship_uploads",
                           !.call = NewCall("log", "line", max_tries)]
            ELSE [w EXCEPT !.pc = "ship_unhandled",
                           !.failure_reason = "Unhandled exception",
                           !.call = NewCall("log", "line", max_tries)]
    /\ UNCHANGED <<rows, stream, clock, invoke, req, tail, job, lp, pkg, mk, sm, seen>>

\* The writer's _ship_log call returned, or raised and ended the writer:
\* await consumer_task then raises in execute (except Exception).
AfterBatch ==
    /\ w.pc = "batch"
    /\ CallOver
    /\ w' = IF w.call.st = "ok"
            THEN [w EXCEPT !.pc = "drain", !.call = NoCall]
            ELSE [w EXCEPT !.pc = "ship_unhandled",
                           !.failure_reason = "Unhandled exception",
                           !.call = NewCall("log", "line", max_tries)]
    /\ UNCHANGED <<rows, stream, clock, invoke, req, tail, job, lp, pkg, mk, sm, seen>>

\* except Exception: try: _ship_log, kill, communicate; except: pass
AfterShipUnhandled ==
    /\ w.pc = "ship_unhandled"
    /\ CallOver
    /\ w' = [w EXCEPT !.pc = "ship_uploads",
                      !.call = NewCall("log", "line", max_tries)]
    /\ UNCHANGED <<rows, stream, clock, invoke, req, tail, job, lp, pkg, mk, sm, seen>>

\* _ship_log("Attempting to upload output files: ...") outside any try.
AfterShipUploads(bad) ==
    /\ w.pc = "ship_uploads"
    /\ CallOver
    /\ w' = IF w.call.st = "ok"
            THEN [w EXCEPT !.pc = "upload_ship", !.files = OutputFiles,
                           !.attempts = 0, !.bad = bad,
                           !.call = NewCall("log", "line", max_tries)]
            ELSE [w EXCEPT !.pc = "crashed", !.call = NoCall]
    /\ UNCHANGED <<rows, stream, clock, invoke, req, tail, job, lp, pkg, mk, sm, seen>>

UploadRaised_Abort ==
    IF w.attempts + 1 >= max_tries
    THEN Raised(w)
    ELSE [w EXCEPT !.pc = "upload_ship", !.attempts = @ + 1,
                   !.call = NewCall("log", "line", max_tries)]

\* The worker's state after one attempt of _upload_file has raised: the
\* attempt is repeated until max_tries, then the file is given up.
UploadRaised ==
    IF w.attempts + 1 >= max_tries
    THEN IF Len(w.files) > 1
         THEN [w EXCEPT !.pc = "upload_ship", !.files = Tail(@), !.attempts = 0,
                        !.call = NewCall("log", "line", max_tries)]
         ELSE [w EXCEPT !.pc = "final", !.files = <<>>, !.attempts = 0,
                        !.call = NoCall]
    ELSE [w EXCEPT !.pc = "upload_ship", !.attempts = @ + 1,
                   !.call = NewCall("log", "line", max_tries)]

\* _upload_file: await _ship_log(invocation_id, message)
AfterUploadShip ==
    /\ w.pc = "upload_ship"
    /\ CallOver
    /\ w' = IF w.call.st = "ok"
            THEN [w EXCEPT !.pc = "upload_post",
                           !.call = NewCall("upload", Head(w.files), 1)]
            ELSE UploadRaised
    /\ UNCHANGED <<rows, stream, clock, invoke, req, tail, job, lp, pkg, mk, sm, seen>>

\* _upload_file: session.post(".../upload", data=form)
AfterUploadPost ==
    /\ w.pc = "upload_post"
    /\ CallOver
    /\ w' = IF w.call.st = "ok"
            THEN IF Len(w.files) > 1
                 THEN [w EXCEPT !.pc = "upload_ship", !.files = Tail(@),
                                !.attempts = 0,
                                !.call = NewCall("log", "line", max_tries)]
                 ELSE [w EXCEPT !.pc = "final", !.files = <<>>,
                                !.attempts = 0, !.call = NoCall]
            ELSE UploadRaised
    /\ UNCHANGED <<rows, stream, clock, invoke, req, tail, job, lp, pkg, mk, sm, seen>>

\* _mark_complete(invocation_id, error=failure_reason): fail when there is
\* an error, else complete with the content of the answer file.
MarkComplete ==
    /\ w.pc = "final"
    /\ w.call.st = "none"
    /\ w' = [w EXCEPT !.call =
               IF w.failure_reason # "None"
               THEN NewCall("fail", w.failure_reason, max_tries)
               ELSE NewCall("complete", "ans", max_tries)]
    /\ UNCHANGED <<rows, stream, clock, invoke, req, tail, job, lp, pkg, mk, sm, seen>>

\* _mark_complete returned (SQUAD_SM.close(), end of execute) or raised;
\* also the return after the _mark_complete of a failed launch.
AfterMarkComplete ==
    /\ w.pc \in {"final", "launch_failed"}
    /\ CallOver
    /\ w' = [w EXCEPT !.pc = IF w.call.st = "ok" THEN "returned" ELSE "crashed",
                      !.call = NoCall]
    /\ UNCHANGED <<rows, stream, clock, invoke, req, tail, job, lp, pkg, mk, sm, seen>>

----------------------------------------------------------------------------
(* The log pipeline at work *)

\* create_subprocess_exec returned: the program runs, the two producer
\* tasks and the consumer task are created.  The program prints at most
\* MaxLines + 1 lines in all.
Spawn(stdout, stderr) ==
    /\ lp.main = "off"
    /\ Len(stdout) + Len(stderr) <= MaxLines + 1
    /\ lp' = [PipelineOff EXCEPT !.proc = "running", !.wpc = "get",
                                 !.main = "wait",
                                 !.out = [src \in {"stdout", "stderr"} |->
                                            IF src = "stdout" THEN stdout ELSE stderr]]
    /\ UNCHANGED <<rows, stream, clock, invoke, req, tail, job, w, pkg, mk, sm, seen>>

\* _capture_logs: line = await stream.readline(); await queue.put(line)
Capture(src) ==
    /\ lp.out[src] # <<>>
    /\ lp' = [lp EXCEPT !.out[src] = Tail(@),
                        !.queue = Append(@, Head(lp.out[src]))]
    /\ UNCHANGED <<rows, stream, clock, invoke, req, tail, job, w, pkg, mk, sm, seen>>

\* The program exits; what it wrote stays readable in the pipes.
Exit(returncode) ==
    /\ lp.proc = "running"
    /\ lp' = [lp EXCEPT !.proc = "exited", !.returncode = returncode]
    /\ UNCHANGED <<rows, stream, clock, invoke, req, tail, job, w, pkg, mk, sm, seen>>

\* process.wait() has returned and both producers have read EOF:
\* await log_queue.put(None)
PutNone ==
    /\ lp.main = "wait"
    /\ lp.proc = "exited"
    /\ \A src \in {"stdout", "stderr"} : lp.out[src] = <<>>
    /\ lp' = [lp EXCEPT !.main = "consumer", !.queue = Append(@, NoneLine)]
    /\ UNCHANGED <<rows, stream, clock, invoke, req, tail, job, w, pkg, mk, sm, seen>>

\* await consumer_task returns, or raises what ended the writer (except
\* Exception); failure_reason as execute sets it.
AwaitConsumer ==
    /\ lp.main = "consumer"
    /\ lp.wpc \in {"done", "dead"}
    /\ lp' = [lp EXCEPT !.main = "joined",
                        !.failure_reason =
                            IF lp.wpc = "dead" THEN "Unhandled exception"
                            ELSE IF lp.returncode = "0" THEN "None"
                            ELSE "Bad exit code from subprocess: 137"]
    /\ UNCHANGED <<rows, stream, clock, invoke, req, tail, job, w, pkg, mk, sm, seen>>

\* line = await asyncio.wait_for(queue.get(), timeout=1.0) returns a line
\* or the marker.
WriterGet ==
    /\ lp.wpc = "get"
    /\ lp.queue # <<>>
    /\ LET line == Head(lp.queue)
           l == [lp EXCEPT !.queue = Tail(@)]
       IN lp' = IF line = NoneLine THEN OnNone(l) ELSE OnLine(l, line)
    /\ UNCHANGED <<rows, stream, clock, invoke, req, tail, job, w, pkg, mk, sm, seen>>

\* The queue has stayed empty for one second: asyncio.TimeoutError.
WriterTimeout ==
    /\ lp.wpc = "get"
    /\ lp.queue = <<>>
    /\ lp' = OnTimeout(lp)
    /\ UNCHANGED <<rows, stream, clock, invoke, req, tail, job, w, pkg, mk, sm, seen>>

\* The writer's _ship_log call returns, or raises once its max_tries
\* attempts have failed: the exception ends the writer task.
ShipReturn(ok) ==
    /\ lp.wpc = "ship"
    /\ lp' = IF ok THEN OnShipped(lp) ELSE [lp EXCEPT !.wpc = "dead"]
    /\ UNCHANGED <<rows, stream, clock, invoke, req, tail, job, w, pkg, mk, sm, seen>>

----------------------------------------------------------------------------
(* stream_invocation: GET /invocations/{id}/stream?offset=... *)

\* Offsets a client passes without having seen a frame: none, "0-0", a
\* malformed string, an id beyond every entry the log will ever hold.
StartOffsets ==
    {NoOffset, Off(<<0, 0>>), BadOffset, Off(<<MaxClock + 1, 0>>)}

StartKind(offset) ==
    IF offset \in {NoOffset, Off(<<0, 0>>)} THEN "zero" ELSE "other"

\* if invocation.completed_at: delta = now - completed_at;
\* if delta >= timedelta(minutes=30): raise 400
TooOld(snap, now) ==
    snap.completed_at # NULL /\ now - snap.completed_at >= StreamCutoff

\* The handler up to the StreamingResponse: load as the caller, 404 when
\* not visible, 400 when completed too long ago, else start _stream with
\* last_offset = offset.
OpenStream(t, i, caller, offset, start, after) ==
    /\ tail[t].pc = "closed"
    /\ \A u \in Tailers : u < t => tail[u].pc # "closed"
    /\ LET snap == _load_invocation(rows, i, caller)
           base == [ClosedTail EXCEPT !.id = i, !.start = start, !.after = after]
       IN tail' = [tail EXCEPT ![t] =
            IF ~snap.found THEN [base EXCEPT !.pc = "rejected", !.resp = 404]
            ELSE IF TooOld(snap, clock)
            THEN [base EXCEPT !.pc = "rejected", !.resp = 400]
            ELSE [base EXCEPT !.pc = "open", !.last_offset = offset]]
    /\ UNCHANGED <<rows, stream, clock, invoke, req, job, w, lp, pkg, mk, sm, seen>>

\* A client opens a stream with an offset of its own choice.
TailOpen(t, i, caller, offset) ==
    OpenStream(t, i, caller, offset, StartKind(offset), <<0, 0>>)

\* A client opens a stream with the offset of a frame it received: frame k
\* of tailer u.
TailResume(t, i, caller, u, k) ==
    /\ u # t
    /\ k \in 1..Len(tail[u].emitted)
    /\ tail[u].id = i
    /\ OpenStream(t, i, caller, Off(tail[u].emitted[k].offset), "resume",
                  tail[u].emitted[k].id)

\* One iteration of the while loop of _stream: xrange from last_offset;
\* Redis rejects a malformed id (yield "data: ERROR", return); an empty
\* result yields the keep-alive "." and sleeps; otherwise every entry is
\* emitted until the sentinel is seen.
TailPoll(t) ==
    /\ tail[t].pc = "open"
    /\ LET res == XrangeFrom(stream[tail[t].id], tail[t].last_offset)
           frames == Frames(res)
           last == frames[Len(frames)]
       IN tail' = [tail EXCEPT ![t] =
            IF tail[t].last_offset.kind = "bad"
            THEN [@ EXCEPT !.pc = "error"]
            ELSE IF res = <<>>
            THEN [@ EXCEPT !.pc = "sleeping"]
            ELSE [@ EXCEPT !.emitted = @ \o frames,
                           !.last_offset = Off(last.offset),
                           !.pc = IF last.log = FINISHED THEN "finished"
                                  ELSE "open"]]
    /\ UNCHANGED <<rows, stream, clock, invoke, req, job, w, lp, pkg, mk, sm, seen>>

\* await asyncio.sleep(1.0); continue
TailWake(t) ==
    /\ tail[t].pc = "sleeping"
    /\ tail' = [tail EXCEPT ![t].pc = "open"]
    /\ UNCHANGED <<rows, stream, clock, invoke, req, job, w, lp, pkg, mk, sm, seen>>

----------------------------------------------------------------------------
(* Specifications *)

Invoke(submissions) ==
    \E i \in InvocationIds :
        \/ \E public \in BOOLEAN, submitted \in submissions :
              InvokeCommit(i, public, submitted)
        \/ InvokeXadd(i)

Arrive(serial, kinds, tokens, texts) ==
    \E r \in Req, kind \in kinds, i \in InvocationIds, tok \in tokens :
        \E arg \in (IF kind = "log" THEN texts ELSE Args(kind)) :
            Load(r, kind, i, tok, arg, serial)

\* The steps of the handlers that write the log.
HandleLog ==
    \E r \in Req :
        \/ Commit(r)
        \/ XaddError(r)
        \/ XaddFinished(r)
        \/ AppendLog(r)

Handle == HandleLog \/ \E r \in Req : Upload(r)

Tailing ==
    \E t \in Tailers :
        \/ \E i \in InvocationIds, caller \in Callers :
              \/ \E offset \in StartOffsets : TailOpen(t, i, caller, offset)
              \/ \E u \in Tailers, k \in 1..(MaxStream + 4) :
                    TailResume(t, i, caller, u, k)
        \/ TailPoll(t)
        \/ TailWake(t)

\* The control plane with overlapping worker requests.
Next == Tick \/ Invoke({TRUE}) \/ Arrive(FALSE, Kinds, Tokens, LogTexts) \/ Handle

Spec == Init /\ [][Next]_vars

\* The control plane with one worker request at a time.
SeqNext == Tick \/ Invoke({TRUE}) \/ Arrive(TRUE, Kinds, Tokens, LogTexts) \/ Handle

SeqSpec == Init /\ [][SeqNext]_vars

\* The log relay: the requests that write the log, one at a time, and
\* tailers polling between any two of their steps.
TailNext ==
    Tick \/ Invoke({TRUE}) \/ Arrive(TRUE, {"log", "complete", "fail"}, {"scoped"}, {"line"})
         \/ HandleLog \/ Tailing

TailSpec == Init /\ [][TailNext]_vars

\* The log relay under the scheduling the server guarantees: time passes,
\* every handler that can take its next step does, every open stream keeps
\* polling.
FairTailSpec ==
    /\ TailSpec
    /\ WF_vars(Tick)
    /\ WF_vars(Invoke({TRUE}))
    /\ WF_vars(HandleLog)
    /\ \A t \in Tailers : WF_vars(TailPoll(t)) /\ WF_vars(TailWake(t))

\* Scenario runs of the log relay: one client tailing from "0-0" while the
\* worker's calls are served one after the other on the same connection.
ScenarioNext ==
    \/ Tick
    \/ Invoke({TRUE})
    \/ Arrive(TRUE, {"log", "complete", "fail"}, {"scoped"}, {"line"})
    \/ HandleLog
    \/ \E r \in Req : Recycle(r)
    \/ \E i \in InvocationIds, caller \in Callers :
          TailOpen(1, i, caller, Off(<<0, 0>>))
    \/ TailPoll(1)
    \/ TailWake(1)

ScenarioSpec == Init /\ [][ScenarioNext]_vars

\* The requests that write the log, overlapping.
RelayNext ==
    Tick \/ Invoke({TRUE})
         \/ Arrive(FALSE, {"log", "complete", "fail"}, {"scoped"}, {"line"})
         \/ HandleLog

\* The same where every handler that can take its next step does.
FairRelaySpec == Init /\ [][RelayNext]_vars /\ WF_vars(HandleLog)

\* The log pipeline of one execution: subprocess, producers, consumer and
\* the part of execute that joins them.
PipelineNext ==
    \/ \E stdout \in Outputs("stdout"), stderr \in Outputs("stderr") :
          Spawn(stdout, stderr)
    \/ \E src \in {"stdout", "stderr"} : Capture(src)
    \/ \E returncode \in {"0", "137"} : Exit(returncode)
    \/ PutNone
    \/ AwaitConsumer
    \/ WriterGet
    \/ WriterTimeout
    \/ \E ok \in BOOLEAN : ShipReturn(ok)

PipelineSpec == Init /\ [][PipelineNext]_vars

----------------------------------------------------------------------------
(* Creation of invocations *)

\* The ids of the persisted invocations.
PersistedIds(table) == {table[k].invocation_id : k \in DOMAIN table}

insert_Upsert(table, row) ==
    IF row.invocation_id \in PersistedIds(table)
    THEN [ok |-> TRUE,
          table |-> [k \in DOMAIN table |->
                        IF table[k].invocation_id = row.invocation_id
                        THEN row ELSE table[k]]]
    ELSE [ok |-> TRUE, table |-> Append(table, row)]

\* INSERT on commit: invocation_id is the primary key, a second row with
\* the same id is an IntegrityError and the table is unchanged.
insert(table, row) ==
    IF row.invocation_id \in PersistedIds(table)
    THEN [ok |-> FALSE, table |-> table]
    ELSE [ok |-> TRUE, table |-> Append(table, row)]

\* One turn of get_unique_id's loop: a candidate is drawn and looked up;
\* it is returned if no persisted invocation has it, else the loop goes on.
get_unique_id(t, candidate) ==
    /\ mk.call[t].pc \in {"idle", "collided"}
    /\ mk' = [mk EXCEPT !.call[t] =
                  IF candidate \in PersistedIds(mk.table)
                  THEN [@ EXCEPT !.pc = "collided"]
                  ELSE [@ EXCEPT !.pc = "have_id", !.invocation_id = candidate]]
    /\ UNCHANGED <<rows, stream, clock, invoke, req, tail, job, w, lp, pkg, sm, seen>>

\* db.add and db.commit of invoke_agent; an exception ends the call (500).
CreateCommit(t) ==
    /\ mk.call[t].pc = "have_id"
    /\ LET res == insert(mk.table, [invocation_id |-> mk.call[t].invocation_id,
                                    task |-> t])
       IN mk' = [mk EXCEPT !.table = res.table,
                           !.call[t] = IF res.ok
                                       THEN [@ EXCEPT !.pc = "committed"]
                                       ELSE [@ EXCEPT !.pc = "done", !.resp = 500]]
    /\ UNCHANGED <<rows, stream, clock, invoke, req, tail, job, w, lp, pkg, sm, seen>>

\* The xadd of "Queued agent call." and the answer.
CreateXadd(t) ==
    /\ mk.call[t].pc = "committed"
    /\ mk' = [mk EXCEPT !.log[mk.call[t].invocation_id] = Append(@, t),
                        !.call[t] = [@ EXCEPT !.pc = "done", !.resp = 200]]
    /\ UNCHANGED <<rows, stream, clock, invoke, req, tail, job, w, lp, pkg, sm, seen>>

CreateNext ==
    \/ \E t \in Tasks, candidate \in Candidates : get_unique_id(t, candidate)
    \/ \E t \in Tasks : CreateCommit(t)
    \/ \E t \in Tasks : CreateXadd(t)

CreateSpec == Init /\ [][CreateNext]_vars

----------------------------------------------------------------------------
(* The read endpoints *)

\* The search strings of list_invocations; "None" is no search.
Searches == {"None", "alpha", "beta"}

\* Invocation.task.ilike(f"%{search}%")
ilike(task, search) == \E k \in 1..Len(task) : task[k] = search

\* list_invocations: the rows of every user that pass the filters are
\* counted and returned; the items that are private and not the caller's
\* have invocation_id, task, inputs, outputs, answer and user_id blanked.
list_invocations(db, current_user_id, search, mine) ==
    IF mine /\ current_user_id = "None" THEN [code |-> 404, body |-> {}]
    ELSE LET hits == {i \in DOMAIN db :
                        /\ mine => db[i].user_id = current_user_id
                        /\ search # "None" => ilike(db[i].task, search)}
             item(i) ==
                 IF ~db[i].public /\ db[i].user_id # current_user_id
                 THEN [invocation_id |-> "(private)",
                       item |-> [db[i] EXCEPT !.task = <<"(private)">>,
                                              !.inputs = <<>>, !.outputs = <<>>,
                                              !.answer = Json("", "(private)"),
                                              !.user_id = "(private)"]]
                 ELSE [invocation_id |-> i, item |-> db[i]]
         IN [code |-> 200,
             body |-> {[total |-> Cardinality(hits)]} \cup {item(i) : i \in hits}]

\* get_invocation: the row when the caller may see it, else 404.
get_invocation(db, invocation_id, user_id) ==
    IF _load_invocation(db, invocation_id, user_id).found
    THEN [code |-> 200, body |-> {db[invocation_id]}]
    ELSE [code |-> 404, body |-> {}]

\* GET /invocations?search=...&mine=...
List(caller, search, mine) ==
    /\ seen' = [kind |-> "list", caller |-> caller, id |-> "None",
                search |-> search, mine |-> mine]
               @@ list_invocations(rows, caller, search, mine)
    /\ UNCHANGED <<rows, stream, clock, invoke, req, tail, job, w, lp, pkg, mk, sm>>

\* GET /invocations/{invocation_id}
Get(caller, i) ==
    /\ seen' = [kind |-> "get", caller |-> caller, id |-> i,
                search |-> "None", mine |-> FALSE]
               @@ get_invocation(rows, i, caller)
    /\ UNCHANGED <<rows, stream, clock, invoke, req, tail, job, w, lp, pkg, mk, sm>>

\* Readers beside the calls that create and change invocations.
ReadNext ==
    \/ Tick
    \/ Invoke({TRUE})
    \/ Arrive(TRUE, Kinds, {"scoped"}, {"line"})
    \/ Handle
    \/ \E caller \in Callers, search \in Searches, mine \in BOOLEAN :
          List(caller, search, mine)
    \/ \E caller \in Callers, i \in InvocationIds : Get(caller, i)

ReadSpec == Init /\ [][ReadNext]_vars

----------------------------------------------------------------------------
(* The session manager *)

\* asyncio.Lock: a task passes "async with self._lock" only while no task
\* holds the lock.
LockFree_Always(lock) == TRUE

LockFree(lock) == lock = 0

\* A task calls get_session or close and waits at "async with self._lock".
SessionCall(t, op) ==
    /\ sm.pc[t] = "idle"
    /\ sm' = [sm EXCEPT !.pc[t] = op]
    /\ UNCHANGED <<rows, stream, clock, invoke, req, tail, job, w, lp, pkg, mk, seen>>

\* get_session under the lock: a session that is missing or closed is
\* replaced by a new one, then the session is yielded with the lock held.
GetSessionEnter(t) ==
    /\ sm.pc[t] = "get_session"
    /\ LockFree(sm._lock)
    /\ sm' = [sm EXCEPT !._lock = t,
                        !._session = IF @ \in {"None", "closed"}
                                     THEN "open" ELSE @,
                        !.pc[t] = "inside"]
    /\ UNCHANGED <<rows, stream, clock, invoke, req, tail, job, w, lp, pkg, mk, seen>>

\* The caller's block ends: the generator resumes past the yield and the
\* lock is released.
GetSessionExit(t) ==
    /\ sm.pc[t] = "inside"
    /\ sm' = [sm EXCEPT !._lock = 0, !.pc[t] = "idle"]
    /\ UNCHANGED <<rows, stream, clock, invoke, req, tail, job, w, lp, pkg, mk, seen>>

\* close under the lock: with an open session it awaits the session's
\* close(), else it has nothing to do and releases the lock.
CloseEnter(t) ==
    /\ sm.pc[t] = "close"
    /\ LockFree(sm._lock)
    /\ sm' = IF sm._session = "open"
             THEN [sm EXCEPT !._lock = t, !.pc[t] = "closing"]
             ELSE [sm EXCEPT !.pc[t] = "idle"]
    /\ UNCHANGED <<rows, stream, clock, invoke, req, tail, job, w, lp, pkg, mk, seen>>

\* The awaited close() of the session closes it.
CloseSession(t) ==
    /\ sm.pc[t] = "closing"
    /\ sm._session = "open"
    /\ sm' = [sm EXCEPT !._session = "closed"]
    /\ UNCHANGED <<rows, stream, clock, invoke, req, tail, job, w, lp, pkg, mk, seen>>

\* close() returned: the reference is dropped and the lock released.
CloseFinish(t) ==
    /\ sm.pc[t] = "closing"
    /\ sm._session = "closed"
    /\ sm' = [sm EXCEPT !._session = "None", !._lock = 0, !.pc[t] = "idle"]
    /\ UNCHANGED <<rows, stream, clock, invoke, req, tail, job, w, lp, pkg, mk, seen>>

\* The task is cancelled while it awaits the session's close(): the lock is
\* released by "async with" and the reference is kept, to a session that is
\* closed or still open.
CloseCancelled(t) ==
    /\ sm.pc[t] = "closing"
    /\ sm' = [sm EXCEPT !._lock = 0, !.pc[t] = "idle"]
    /\ UNCHANGED <<rows, stream, clock, invoke, req, tail, job, w, lp, pkg, mk, seen>>

\* Any interleaving of get_session and close calls of the tasks.
SessionNext ==
    \/ \E t \in Tasks, op \in {"get_session", "close"} : SessionCall(t, op)
    \/ \E t \in Tasks : GetSessionEnter(t)
    \/ \E t \in Tasks : GetSessionExit(t)
    \/ \E t \in Tasks : CloseEnter(t)
    \/ \E t \in Tasks : CloseSession(t)
    \/ \E t \in Tasks : CloseFinish(t)
    \/ \E t \in Tasks : CloseCancelled(t)

SessionSpec == Init /\ [][SessionNext]_vars

----------------------------------------------------------------------------
(* The package builder *)

\* prepare_execution_package up to the configmap: an invocation already
\* completed is refused, else the token is minted with the scopes.
PrepareStart(i, source) ==
    /\ pkg.pc = "off"
    /\ i \in DOMAIN rows
    /\ pkg' = IF rows[i].completed_at # NULL
              THEN [pkg EXCEPT !.pc = "raised", !.id = i, !.source = source]
              ELSE [pkg EXCEPT !.pc = "packed", !.id = i, !.source = source,
                               !.token = generate_auth_token(
                                   pkg.dev_auth, rows[i].user_id, "agent",
                                   PackageScopes(i, source))]
    /\ UNCHANGED <<rows, stream, clock, invoke, req, tail, job, w, lp, mk, sm, seen>>

\* The upload of the tarball; an exception is logged and raised again.
PrepareUpload(ok) ==
    /\ pkg.pc = "packed"
    /\ pkg' = [pkg EXCEPT !.pc = IF ok THEN "uploaded" ELSE "raised"]
    /\ UNCHANGED <<rows, stream, clock, invoke, req, tail, job, w, lp, mk, sm, seen>>

\* The presigned URL of the tarball is returned.
PreparePresign(ok) ==
    /\ pkg.pc = "uploaded"
    /\ pkg' = IF ok THEN [pkg EXCEPT !.pc = "returned", !.url = "presigned"]
              ELSE [pkg EXCEPT !.pc = "raised"]
    /\ UNCHANGED <<rows, stream, clock, invoke, req, tail, job, w, lp, mk, sm, seen>>

\* A call of the package builder on an invocation of the table, under
\* either configuration, beside the calls that complete invocations.
PackageNext ==
    \/ Tick
    \/ Invoke({TRUE})
    \/ Arrive(TRUE, {"log", "complete", "fail"}, {"scoped"}, {"line"})
    \/ HandleLog
    \/ \E i \in InvocationIds, source \in Sources : PrepareStart(i, source)
    \/ \E ok \in BOOLEAN : PrepareUpload(ok)
    \/ \E ok \in BOOLEAN : PreparePresign(ok)

PackageSpec ==
    (\E dev_auth \in DevAuths : InitWith(dev_auth)) /\ [][PackageNext]_vars

\* The worker steps, for the given programs, sets of failing input
\* downloads and choices of an output file that cannot be uploaded.
WorkerSteps(programs, failings, bads) ==
    \/ \E i \in InvocationIds : PodInit(i)
    \/ \E i \in InvocationIds, launcher \in {"job", "manual"},
          env \in {JobEnv, {}, {"PACKAGE_URL"}} : WorkerStart(i, launcher, env)
    \/ GetPackageUrl
    \/ \E ok \in BOOLEAN : FetchPackage(ok)
    \/ \E ok \in BOOLEAN : ReadConfig(ok)
    \/ \E failing \in failings : DownloadInputs(failing)
    \/ \E ok \in BOOLEAN, program \in programs : Launch(ok, program)
    \/ ProcessExit
    \/ AfterBatch
    \/ \E consumer_ok \in BOOLEAN : Drain(consumer_ok)
    \/ CallFail
    \/ CallSend
    \/ \E delivered \in BOOLEAN : CallRecv(delivered)
    \/ AfterShipResult
    \/ AfterShipUnhandled
    \/ \E bad \in bads : AfterShipUploads(bad)
    \/ AfterUploadShip
    \/ AfterUploadPost
    \/ MarkComplete
    \/ AfterMarkComplete

\* The worker whose input downloads and output uploads all go through.
Worker == WorkerSteps(Programs, {{}}, {"none"})

\* The worker with failing input downloads and a failing output upload.
IoNext ==
    \/ Invoke({TRUE})
    \/ WorkerSteps({"exit0_answer", "exit_nonzero"}, SUBSET Inputs,
                   {"none", "f1", "f2"})
    \/ Handle

IoSpec == Init /\ [][IoNext]_vars

\* Dispatcher, job, worker process and the control plane serving its calls.
WorkerNext == Tick \/ Invoke(BOOLEAN) \/ Worker \/ Handle

WorkerSpec == Init /\ [][WorkerNext]_vars

\* The same under the scheduling of the event loops: every task that can
\* take a step eventually does.
FairWorkerSpec ==
    /\ WorkerSpec
    /\ WF_vars(Tick)
    /\ WF_vars(Invoke(BOOLEAN))
    /\ WF_vars(Worker)
    /\ WF_vars(Handle)

----------------------------------------------------------------------------
(* Properties of the state-transition guard *)

Terminal(i) == i \in DOMAIN rows /\ rows[i].status # "pending"

Transition(r) == req[r].kind \in {"complete", "fail"}

\* Request r has been answered.
Answered(r) == req[r].pc = "done"

\* Request r has written the row.
Wrote(r) ==
    /\ Transition(r)
    /\ \/ req[r].pc \in {"committed", "errlogged"}
       \/ req[r].pc = "done" /\ req[r].resp = 200

\* C1 (SeqSpec): once an invocation has left 'pending', no later log,
\* upload, complete or fail call changes its status, answer or completed_at;
\* the only status changes are pending -> success and pending -> error.
C1_TerminalIsFinal ==
    [][\A i \in DOMAIN rows :
         /\ rows[i].status # "pending" =>
              /\ rows'[i].status = rows[i].status
              /\ rows'[i].answer = rows[i].answer
              /\ rows'[i].completed_at = rows[i].completed_at
         /\ rows'[i].status # rows[i].status =>
              /\ rows[i].status = "pending"
              /\ rows'[i].status \in {"success", "error"}]_vars

\* A complete or fail call has been answered on an invocation that was
\* already terminal when the call arrived.
C1_Witness ==
    \E r \in Req :
        /\ Answered(r) /\ Transition(r) /\ req[r].tok = "scoped"
        /\ req[r].pre \in {"success", "error"}

\* C2 (Spec): in every state of every invocation row, completed_at is
\* non-null if and only if status is not 'pending'.
C2_CompletedIffTerminal ==
    \A i \in DOMAIN rows :
        (rows[i].completed_at # NULL) <=> (rows[i].status # "pending")

\* A row that was uploaded to and then completed.
C2_Witness ==
    \E i \in DOMAIN rows :
        /\ rows[i].status = "success"
        /\ rows[i].completed_at # NULL
        /\ rows[i].outputs # <<>>

C4_AtMostOneWrite ==
    \A i \in InvocationIds :
        Cardinality({r \in Req : req[r].id = i /\ Wrote(r)}) <= 1

\* C5 as stated (SeqSpec): a complete (fail) call with a token scoped to
\* the invocation, made while the invocation is pending, is accepted
\* whatever the public flag, and leaves status success (error),
\* completed_at set and answer equal to the answer (error) of the call.
C5_TransitionTakesEffect ==
    \A r \in Req :
        (Answered(r) /\ Transition(r) /\ req[r].tok = "scoped"
            /\ req[r].pre = "pending")
        => /\ req[r].resp = 200
           /\ rows[req[r].id].completed_at # NULL
           /\ req[r].kind = "complete" =>
                /\ rows[req[r].id].status = "success"
                /\ rows[req[r].id].answer = Json("", req[r].arg)
           /\ req[r].kind = "fail" =>
                /\ rows[req[r].id].status = "error"
                /\ rows[req[r].id].answer.v = req[r].arg

----------------------------------------------------------------------------
(* Properties of the log relay *)

\* The stream of tailer t is open: polling, or asleep between two polls.
Streaming(t) == tail[t].pc \in {"open", "sleeping"}

Entry(f) == [id |-> f.id, log |-> f.log]

Entries(frames) == [k \in 1..Len(frames) |-> Entry(frames[k])]

RECURSIVE UpToSentinel(_)
\* The entries of s up to and including the first sentinel.
UpToSentinel(s) ==
    IF s = <<>> THEN <<>>
    ELSE IF Head(s).log = FINISHED THEN <<Head(s)>>
         ELSE <<Head(s)>> \o UpToSentinel(Tail(s))

RECURSIVE AppendedAfter(_, _)
\* The entries of s appended after the entry with the given id.
AppendedAfter(s, id) ==
    IF s = <<>> THEN <<>>
    ELSE IF Head(s).id = id THEN Tail(s)
         ELSE AppendedAfter(Tail(s), id)

\* What tailer tl owes its client, given the log s.
Due(tl, s) ==
    UpToSentinel(IF tl.start = "resume" THEN AppendedAfter(s, tl.after) ELSE s)

\* C9 (TailSpec): a tail started at offset 0 (or without offset) has, after
\* every poll that emits, emitted exactly the log's entries in append order
\* up to the sentinel; a tail resumed from the offset of a frame has emitted
\* exactly the entries appended after that frame's entry; nothing is
\* duplicated or skipped, with appends interleaved and with two tailers.
C9_OrderedGapFree ==
    [][\A t \in Tailers :
         (tail'[t].start \in {"zero", "resume"}
             /\ tail'[t].emitted # tail[t].emitted)
         => Entries(tail'[t].emitted) = Due(tail'[t], stream'[tail'[t].id])]_vars

\* A tailer resumed from a frame of another tailer has emitted entries,
\* while the other tailer has emitted at least two.
C9_Witness ==
    \E t \in Tailers, u \in Tailers :
        /\ t # u
        /\ tail[t].start = "resume" /\ Len(tail[t].emitted) >= 1
        /\ tail[u].start = "zero" /\ Len(tail[u].emitted) >= 2

\* C10 as stated (FairTailSpec): every open tail stream on a terminal
\* invocation eventually ends.
C10_TailEnds ==
    \A t \in Tailers :
        (Streaming(t) /\ Terminal(tail[t].id)) ~> ~Streaming(t)

LineCount(s) == Cardinality({k \in 1..Len(s) : s[k].log = "line"})

\* C11 as stated (ScenarioSpec): a client that tails from "0-0" an
\* invocation whose log received 3 lines and then the sentinel has received
\* exactly 3 data frames when its stream closes.
C11_ThreeFrames ==
    \A t \in Tailers :
        (/\ tail[t].pc = "finished" /\ tail[t].start = "zero"
         /\ LineCount(stream[tail[t].id]) = 3)
        => Len(tail[t].emitted) = 3

HasSentinel(s) == \E k \in 1..Len(s) : s[k].log = FINISHED

\* C12 (FairRelaySpec): whenever an invocation is terminal, its log eventually
\* contains the sentinel; and the request that made the transition does
\* not return before it has appended the sentinel.
C12_SentinelFollows ==
    /\ \A i \in InvocationIds : Terminal(i) ~> HasSentinel(stream[i])
    /\ [](\A r \in Req :
            (Answered(r) /\ Transition(r) /\ req[r].resp = 200)
            => HasSentinel(stream[req[r].id]))

\* A fail call has made the transition and appended the sentinel.
C12_Witness ==
    \E r \in Req :
        /\ Answered(r) /\ req[r].kind = "fail" /\ req[r].resp = 200
        /\ rows[req[r].id].status = "error"
        /\ HasSentinel(stream[req[r].id])

\* C13 (Spec): a log call that arrives on an already-terminal invocation
\* returns "ack" at once and leaves the log and the row unchanged.
C13_AppendNoOp ==
    [][\A r \in Req :
         (/\ req[r].pc = "idle" /\ req'[r].pc # "idle"
          /\ req'[r].kind = "log"
          /\ req'[r].tok = "scoped"
          /\ rows[req'[r].id].status # "pending")
         => /\ req'[r].pc = "done"
            /\ req'[r].resp = 200
            /\ rows' = rows
            /\ stream' = stream]_vars

\* A log call has been acknowledged on an invocation that was terminal
\* when it arrived.
C13_Witness ==
    \E r \in Req :
        /\ Answered(r) /\ req[r].kind = "log" /\ req[r].tok = "scoped"
        /\ req[r].pre \in {"success", "error"}
        /\ req[r].resp = 200

\* C14 as stated (Spec): no line of an append call is ever in the log after
\* the sentinel (in the runs where no append call carries the sentinel's
\* text itself).
C14_ClosedStaysClosed ==
    (\A r \in Req : req[r].kind = "log" => req[r].arg # FINISHED)
    => \A i \in InvocationIds :
         \A j \in 1..Len(stream[i]), k \in 1..Len(stream[i]) :
             (j < k /\ stream[i][j].log = FINISHED) => stream[i][k].log # "line"

----------------------------------------------------------------------------
(* Properties of the worker runtime and the dispatcher *)

SentinelCount(s) == Cardinality({k \in 1..Len(s) : s[k].log = FINISHED})

\* execute has returned or has ended with an exception.
WorkerOver == w.pc \in {"returned", "crashed"}

\* C6 as stated (WorkerSpec), in the runs most favourable to it (a public
\* invocation, no transport fault, a log writer that did not fail): when
\* the subprocess was launched and has exited, the finished worker has made
\* exactly one terminal report that the control plane accepted: the row is
\* terminal and the log holds one sentinel.
C6_ExactlyOneReport ==
    (WorkerOver /\ w.returncode # "none" /\ w.faults = 0 /\ rows[w.id].public)
    => /\ rows[w.id].status # "pending"
       /\ SentinelCount(stream[w.id]) = 1

\* The run of the job submitted for invocation i is over: its pod has
\* failed in the init container, or its worker process has ended.
JobRunOver(i) ==
    \/ job[i].phase = "init_failed"
    \/ job[i].phase = "running" /\ w.id = i /\ WorkerOver

\* C7 as stated (WorkerSpec): when the run of a successfully submitted job
\* is over and its program has not exited non-zero, the invocation has
\* status 'success' and an answer.
C7_JobRunSucceeds ==
    \A i \in DOMAIN rows :
        (JobRunOver(i) /\ w.returncode \in {"none", "0"})
        => /\ rows[i].status = "success"
           /\ rows[i].answer # NoAnswer

\* C8 as stated (FairWorkerSpec): a worker waiting on a program that never
\* exits eventually ends (the deadline expires, the program is killed and
\* failure is reported).
C8_NoHang ==
    (w.pc = "wait" /\ w.program = "hang") ~> WorkerOver

\* C19 as stated (WorkerSpec), in the runs without transport fault: when
\* the worker is over after its program exited with code 137, the
\* invocation has status 'error' and its answer is the failure reason, which
\* holds the exit code (so no complete call was accepted).
C19_NonZeroReportsError ==
    (WorkerOver /\ w.returncode = "137" /\ w.faults = 0)
    => /\ rows[w.id].status = "error"
       /\ rows[w.id].answer = Json("error", "Bad exit code from subprocess: 137")

\* C20 as stated (WorkerSpec): when the package cannot be downloaded or
\* extracted, or the config file cannot be read, the worker's next step is
\* a fail call.
C20_CorruptionReported ==
    [][(w.pc \in {"package", "config"} /\ w'.pc \notin {"config", "inputs"})
       => w'.call.kind = "fail"]_vars

\* C21 (WorkerSpec): a worker whose package download or extraction, or
\* whose reading of the config file, fails ends there: it does not go back
\* to the download and never launches the subprocess.
C21_FailFast ==
    [][/\ (w.pc = "package" /\ w'.pc \notin {"package", "config"})
           => w'.pc = "crashed"
       /\ (w.pc = "config" /\ w'.pc \notin {"config", "inputs"})
           => w'.pc = "crashed"
       /\ (w.pc = "crashed" /\ w.program = "none")
           => (w'.pc = "crashed" /\ w'.program = "none")]_vars

\* A worker started with a package URL has ended before any launch, with
\* no call made, on a public invocation and without transport fault.
C21_Witness ==
    /\ w.pc = "crashed" /\ w.program = "none" /\ "PACKAGE_URL" \in w.env
    /\ w.faults = 0 /\ rows[w.id].public

\* C22 as stated (WorkerSpec): a job exists for an invocation only with the
\* presigned URL of its uploaded package in the environment of its worker.
C22_JobAfterPackage ==
    \A i \in InvocationIds :
        job[i].phase \notin {"none", "submit_failed"} => "PACKAGE_URL" \in job[i].env

\* C23 (WorkerSpec): when the submission of the job fails, the insert still
\* commits and the handler goes on (the row is persisted with status
\* 'pending', no exception reaches the caller); the submission is never
\* made again and the row is never removed.
C23_SubmitFailureLogged ==
    [][\A i \in InvocationIds :
         /\ (job[i].phase = "none" /\ job'[i].phase # "none")
             => /\ job'[i].phase \in {"submitted", "submit_failed"}
                /\ i \in DOMAIN rows' /\ rows'[i].status = "pending"
                /\ invoke'[i] = "committed"
         /\ job[i].phase = "submit_failed"
             => (job'[i] = job[i] /\ i \in DOMAIN rows')]_vars

\* The submission failed and invoke_agent has returned; the row is pending.
C23_Witness ==
    \E i \in DOMAIN rows :
        /\ job[i].phase = "submit_failed" /\ invoke[i] = "done"
        /\ rows[i].status = "pending"

\* C24 (WorkerSpec): the job of an invocation is created once, at the
\* insert of its row, it starts at most one pod, and once it has failed or
\* its worker has been started it never runs anything again.
C24_AtMostOneRun ==
    /\ [](\A i \in InvocationIds : job[i].pods <= 1)
    /\ [][\A i \in InvocationIds :
            /\ job[i].phase # "none" => job'[i].phase # "none"
            /\ job'[i].phase = "submitted" => job[i].phase \in {"none", "submitted"}
            /\ job[i].phase \in {"init_failed", "running"} => job'[i] = job[i]]_vars

\* The only pod of a job has failed, and the invocation is still there.
C24_Witness ==
    \E i \in DOMAIN rows : job[i].phase = "init_failed" /\ job[i].pods = 1

\* C28: a log, upload, complete or fail call whose token does not carry the
\* invocation's id among its scopes is answered 401 on arrival and goes no
\* further: the record and the log of the invocation are unchanged.
C28_UnscopedRejected ==
    /\ [](\A r \in Req :
            (req[r].pc # "idle" /\ req[r].tok = "other")
            => req[r].pc = "done" /\ req[r].resp = 401)
    /\ [][\A r \in Req :
            (req[r].pc = "idle" /\ req'[r].pc # "idle" /\ req'[r].tok = "other")
            => rows' = rows /\ stream' = stream]_vars

\* A call of each kind carrying the other invocation's token was refused on
\* a pending invocation.
C28_Witness ==
    \E r \in Req :
        /\ req[r].tok = "other" /\ req[r].resp = 401
        /\ req[r].kind = "complete"
        /\ rows[req[r].id].status = "pending"
        /\ stream[req[r].id] = <<>>

\* C29: the token minted by the package builder carries as scopes the
\* invocation's id, and "x" exactly when the source is "x" or "schedule".
C29_TokenScopes ==
    pkg.token # NoToken
    => /\ pkg.id \in pkg.token.scopes
       /\ pkg.token.scopes \subseteq {pkg.id, "x"}
       /\ "x" \in pkg.token.scopes <=> pkg.source \in {"x", "schedule"}

\* C29, amended: the same when no development token is configured.
C29_TokenScopesUnlessDev ==
    (pkg.token # NoToken /\ pkg.dev_auth = "None")
    => /\ pkg.id \in pkg.token.scopes
       /\ pkg.token.scopes \subseteq {pkg.id, "x"}
       /\ "x" \in pkg.token.scopes <=> pkg.source \in {"x", "schedule"}

\* The package of a scheduled invocation was built with a minted token.
C29_Witness ==
    /\ pkg.pc = "returned"
    /\ pkg.dev_auth = "None"
    /\ pkg.source = "schedule"
    /\ pkg.token.scopes = {pkg.id, "x"}

\* C30: the inputs of an invocation never change and its outputs only
\* grow: every step leaves the inputs alone and the old outputs as a prefix
\* of the new ones, and an accepted upload appends exactly the paths of the
\* files it stored.
C30_OutputsOnlyGrow ==
    [][/\ \A i \in DOMAIN rows :
            /\ i \in DOMAIN rows'
            /\ rows'[i].inputs = rows[i].inputs
            /\ Len(rows[i].outputs) <= Len(rows'[i].outputs)
            /\ SubSeq(rows'[i].outputs, 1, Len(rows[i].outputs)) = rows[i].outputs
       /\ \A r \in Req :
            (req[r].kind = "upload" /\ req[r].pc # "done"
             /\ req'[r].pc = "done" /\ req'[r].resp = 200)
            => rows'[req[r].id].outputs
                   = rows[req[r].id].outputs \o <<req[r].arg>>]_vars

\* Two uploads were accepted, one after the other.
C30_Witness ==
    \E i \in DOMAIN rows :
        /\ Len(rows[i].outputs) = 2
        /\ rows[i].inputs = <<"in1", "in2">>
        /\ \A r \in Req : req[r].kind = "upload" /\ req[r].resp = 200

\* C25: an input download that fails is attempted again, up to the retry
\* cap: when the worker goes on to the launch with an input missing, the
\* download of a missing input has been tried max_tries times.
C25_DownloadRetried ==
    (w.pc = "launch" /\ w.fetched # Inputs) => w.attempts = max_tries

\* C26: failing input downloads do not end the run: the step after the
\* downloads is the launch of the subprocess, whatever was fetched, and a
\* run with a missing input, on a public invocation and with every call
\* getting through, ends with the terminal report made.
C26_DownloadFailureTolerated ==
    /\ [][w.pc = "inputs" /\ w'.pc # "inputs" => w'.pc = "launch"]_vars
    /\ []((WorkerOver /\ w.program # "none" /\ w.fetched # Inputs
            /\ rows[w.id].public /\ w.faults = 0 /\ w.bad = "none")
           => /\ w.pc = "returned"
              /\ rows[w.id].status # "pending")

\* One input was fetched and the other was not, and the run has reported.
C26_Witness ==
    /\ w.pc = "returned"
    /\ w.fetched = {"in2"}
    /\ rows[w.id].status # "pending"

\* C27: every output file has its own upload attempts: when the upload of
\* one file fails until the retries are used up, the other file is still
\* uploaded and the terminal report is still made (on a public invocation,
\* the other calls getting through).
C27_UploadsIndependent ==
    (WorkerOver /\ w.program # "none" /\ rows[w.id].public /\ w.faults = 0)
    => /\ w.pc = "returned"
       /\ rows[w.id].outputs =
              SelectSeq(OutputFiles, LAMBDA f : f # w.bad)
       /\ rows[w.id].status # "pending"

\* The upload of the first file was given up, the second file is stored
\* and the invocation is terminal.
C27_Witness ==
    /\ w.pc = "returned"
    /\ w.bad = "f1"
    /\ rows[w.id].outputs = <<"f2">>
    /\ rows[w.id].status # "pending"

----------------------------------------------------------------------------
(* Properties of the log pipeline *)

RECURSIVE ShippedLines(_)
\* The lines of the shipped batches, in ship order and in their order
\* within each batch ("\n".join(buffer)).
ShippedLines(batches) ==
    IF batches = <<>> THEN <<>>
    ELSE Head(batches).lines \o ShippedLines(Tail(batches))

RECURSIVE Chars(_)
\* The characters of a sequence of lines.
Chars(lines) ==
    IF lines = <<>> THEN 0 ELSE Head(lines).len + Chars(Tail(lines))

\* C15 as stated (PipelineSpec): whatever ship call has given up, once
\* execute has joined the pipeline the writer has drained the queue to the
\* end-of-stream marker and the outcome to report is the one the exit code
\* determines.
C15_DropAndGoOn ==
    lp.main = "joined"
    => /\ lp.wpc = "done"
       /\ lp.queue = <<>>
       /\ lp.failure_reason = "None" <=> lp.returncode = "0"

\* C16 as stated (PipelineSpec): when the writer has taken the
\* end-of-stream marker, no one-second pause has occurred and the output
\* amounts to FlushThreshold characters or more, a flush has happened
\* before the end of the stream (a threshold flush).
C16_FlushBeforeEnd ==
    (/\ lp.wpc = "done" /\ ~lp.paused
     /\ Chars(ShippedLines(lp.shipped)) >= FlushThreshold)
    => \E k \in 1..Len(lp.shipped) : lp.shipped[k].cause = "threshold"

\* C17 (PipelineSpec): when the writer's one-second wait on the empty queue
\* expires, it ships exactly its buffer if the buffer is not empty, and
\* ships nothing if it is; when that ship call returns the buffer is empty
\* and the count is back to 0.
C17_TimeoutFlush ==
    [][/\ (/\ lp.wpc = "get" /\ lp.queue = <<>>
            /\ (lp'.paused # lp.paused \/ lp'.wpc # lp.wpc))
           => IF lp.buffer # <<>>
              THEN /\ lp'.wpc = "ship" /\ lp'.cause = "timeout"
                   /\ lp'.batch = lp.buffer
              ELSE /\ lp'.wpc = "get" /\ lp'.batch = <<>>
                   /\ lp'.shipped = lp.shipped
       /\ (lp.wpc = "ship" /\ lp.cause = "timeout" /\ lp'.wpc = "get")
           => /\ lp'.buffer = <<>> /\ lp'.char_count = 0
              /\ lp'.shipped =
                   Append(lp.shipped, [cause |-> "timeout", lines |-> lp.batch])]_vars

\* A timeout flush of a batch below the threshold has been shipped, and an
\* idle second has passed with an empty buffer afterwards.
C17_Witness ==
    /\ \E k \in 1..Len(lp.shipped) :
          /\ lp.shipped[k].cause = "timeout"
          /\ Chars(lp.shipped[k].lines) < FlushThreshold
    /\ lp.wpc = "get" /\ lp.buffer = <<>> /\ lp.paused

\* C18 (PipelineSpec): for stdout and for stderr, the lines of that pipe
\* among the shipped lines are in the order the program emitted them,
\* whatever the interleaving of the producers and the writer.
C18_PerStreamOrder ==
    \A src \in {"stdout", "stderr"} :
        LET f == SelectSeq(ShippedLines(lp.shipped), LAMBDA x : x.src = src)
        IN \A j \in 1..Len(f), k \in 1..Len(f) : j < k => f[j].n < f[k].n

\* The writer has finished after shipping, in at least two batches, two
\* lines of stdout with a line of stderr between them.
C18_Witness ==
    /\ lp.wpc = "done"
    /\ Len(lp.shipped) >= 2
    /\ LET f == ShippedLines(lp.shipped)
       IN /\ Len(f) = 3
          /\ f[1].src = "stdout" /\ f[2].src = "stderr" /\ f[3].src = "stdout"

----------------------------------------------------------------------------
(* Properties of the creation of invocations *)

\* C31: no two persisted invocations share an invocation_id: the id that
\* get_unique_id returns was held by no persisted invocation when it was
\* looked up, and a creation whose id has been taken meanwhile fails and
\* leaves the persisted rows as they were.
C31_UniqueIds ==
    /\ [](\A j, k \in DOMAIN mk.table :
            mk.table[j].invocation_id = mk.table[k].invocation_id => j = k)
    /\ [][/\ \A k \in DOMAIN mk.table :
               k \in DOMAIN mk'.table /\ mk'.table[k] = mk.table[k]
          /\ \A t \in Tasks :
               (mk.call[t].pc # "have_id" /\ mk'.call[t].pc = "have_id")
               => mk'.call[t].invocation_id \notin PersistedIds(mk.table)
          /\ \A t \in Tasks :
               (mk.call[t].pc = "have_id" /\ mk'.call[t].pc = "done")
               => mk'.call[t].resp = 500 /\ mk'.table = mk.table]_vars

\* Two creations ran with the same candidate: one is persisted, the other
\* one has failed.
C31_Witness ==
    \E t, u \in Tasks :
        /\ t # u
        /\ mk.call[t].invocation_id = mk.call[u].invocation_id
        /\ mk.call[t].pc = "done" /\ mk.call[t].resp = 200
        /\ mk.call[u].pc = "done" /\ mk.call[u].resp = 500

----------------------------------------------------------------------------
(* Properties of the life of the log *)

\* C32: the log of an invocation is eventually deleted: once the sentinel
\* is in the log, the log eventually exists no more.
C32_LogDeleted ==
    \A i \in InvocationIds : HasSentinel(stream[i]) ~> (stream[i] = <<>>)

\* C33: the outputs of a terminal invocation are never modified, also when
\* an upload overlaps the call that makes the invocation terminal; an
\* upload that arrives on a terminal invocation is answered 400.
C33_TerminalOutputsFrozen ==
    [][/\ \A i \in DOMAIN rows :
            rows[i].status # "pending" => rows'[i].outputs = rows[i].outputs
       /\ \A r \in Req :
            (req[r].pc = "idle" /\ req'[r].pc # "idle" /\ req'[r].kind = "upload"
             /\ req'[r].tok = "scoped" /\ rows[req'[r].id].status # "pending")
            => req'[r].pc = "done" /\ req'[r].resp = 400]_vars

----------------------------------------------------------------------------
(* Properties of the writer's file and shipments *)

\* C34: the writer appends every line it drains from the queue to the
\* local log file exactly once and in queue order: a step that takes a
\* line off the queue appends that line to the file, and no other step of
\* a running pipeline changes the file.
C34_FileExactlyOnce ==
    [][lp.main # "off"
       => IF lp.queue # <<>> /\ lp'.queue = Tail(lp.queue)
             /\ Head(lp.queue) # NoneLine
          THEN lp'.file = Append(lp.file, Head(lp.queue))
          ELSE lp'.file = lp.file]_vars

\* C35: a batch the writer ships appears at most once in the relay log of
\* the invocation, also when an attempt fails on the worker's side after
\* the control plane has appended it and the call is sent again.
C35_BatchAtMostOnce ==
    \A i \in InvocationIds :
        Cardinality({k \in 1..Len(stream[i]) : stream[i][k].log = "batch"}) <= 1

\* C36: as long as every ship call succeeds, each line put on the queue is
\* shipped exactly once and in queue order: the lines shipped, followed by
\* the lines the writer holds and by the lines still on the queue, change
\* only by a new line put at the end of the queue; the writer has shipped
\* everything when it exits; the marker is put on the queue after both
\* readers have reached the end of their stream and stays last.
C36_ShippedExactlyOnce ==
    /\ [][LET Held(l) ==
                IF l.wpc = "done" THEN <<>>
                ELSE l.buffer \o (IF l.wpc = "ship" /\ l.cause = "threshold"
                                  THEN <<l.line>> ELSE <<>>)
              Queued(l) == SelectSeq(l.queue, LAMBDA x : x # NoneLine)
              Flow(l) == ShippedLines(l.shipped) \o Held(l) \o Queued(l)
          IN (lp.main # "off" /\ lp'.wpc # "dead")
             => \/ Flow(lp') = Flow(lp)
                \/ /\ Len(lp'.queue) = Len(lp.queue) + 1
                   /\ Flow(lp') = Append(Flow(lp), lp'.queue[Len(lp'.queue)])]_vars
    /\ [](lp.wpc = "done"
          => /\ lp.queue = <<>>
             /\ \A src \in {"stdout", "stderr"} : lp.out[src] = <<>>)
    /\ [](\A k \in 1..Len(lp.queue) :
             lp.queue[k] = NoneLine
             => /\ k = Len(lp.queue)
                /\ lp.proc = "exited"
                /\ \A src \in {"stdout", "stderr"} : lp.out[src] = <<>>)

\* The writer has exited after a timeout flush and a final flush, and three
\* lines of both streams have been shipped.
C36_Witness ==
    /\ lp.wpc = "done"
    /\ Len(ShippedLines(lp.shipped)) = 3
    /\ \E k \in 1..Len(lp.shipped) : lp.shipped[k].cause = "timeout"
    /\ \E k \in 1..Len(lp.shipped) : lp.shipped[k].cause = "final"
    /\ \E k \in 1..3 : ShippedLines(lp.shipped)[k].src = "stderr"
    /\ \E k \in 1..3 : ShippedLines(lp.shipped)[k].src = "stdout"

----------------------------------------------------------------------------
(* Properties of the terminal transition *)

C38_ReportIsLast ==
    /\ [][(w.call.st = "ready" /\ w'.call.st = "sent"
           /\ w.call.kind \in {"log", "upload"})
          => rows[w.id].status = "pending"]_vars
    /\ [](req[WSlot].pc = "done" => req[WSlot].pre \in {"none", "pending"})

----------------------------------------------------------------------------
(* Properties of the read endpoints *)

\* C39: what a caller other than the owner gets from the list and get
\* endpoints does not depend on the content of a private invocation: the
\* answer is the one the same call gets when the private invocations of
\* other users have another task, other inputs and outputs and another
\* answer.
C39_PrivateContentHidden ==
    [][LET other == [i \in DOMAIN rows |->
                        IF ~rows[i].public /\ rows[i].user_id # seen'.caller
                        THEN [rows[i] EXCEPT !.task = <<"beta">>,
                                             !.inputs = <<"in3">>,
                                             !.outputs = <<"f3">>,
                                             !.answer = Json("", "other")]
                        ELSE rows[i]]
           alike == IF seen'.kind = "list"
                    THEN list_invocations(other, seen'.caller, seen'.search,
                                          seen'.mine)
                    ELSE get_invocation(other, seen'.id, seen'.caller)
       IN (seen' # seen /\ seen'.caller # "owner")
          => seen'.code = alike.code /\ seen'.body = alike.body]_vars

----------------------------------------------------------------------------
(* Properties of the session manager *)

\* C40: for one SessionManager, at most one task at a time is inside a
\* get_session context; the session get_session yields is open; and while
\* a task is inside a context the session stays open, so no close() closes
\* it under the caller: whatever the interleaving of the calls.
C40_SessionExclusive ==
    /\ [](Cardinality({t \in Tasks : sm.pc[t] = "inside"}) <= 1)
    /\ [][\A t \in Tasks :
            (sm.pc[t] # "inside" /\ sm'.pc[t] = "inside")
            => sm'._session = "open"]_vars
    /\ []((\E t \in Tasks : sm.pc[t] = "inside") => sm._session = "open")
    /\ [][(\E t \in Tasks : sm.pc[t] = "inside")
          => sm'._session = sm._session]_vars

\* A task is inside a get_session context with the lock held, while another
\* task waits in close() and a third in get_session.
C40_Witness ==
    \E t, u, v \in Tasks :
        /\ sm.pc[t] = "inside"
        /\ sm.pc[u] = "close"
        /\ sm.pc[v] = "get_session"
        /\ sm._lock = t
        /\ sm._session = "open"

====
